---- MODULE Spec2Model ----
(***************************************************************************)
(* Retrieval orchestration of scrapeMM: retrieve (scrapemm/retrieval.py),  *)
(* its per-URL method chain _retrieve_single, and the bounded batch        *)
(* executor run_with_semaphore (util.py).                                  *)
(*                                                                         *)
(* One call is modelled from its arguments to its return.  The event loop  *)
(* is cooperative: every action is the code a coroutine runs between two   *)
(* suspension points.  Backends (retrieve_via_integration, decodo.scrape,  *)
(* firecrawl.scrape) are external: each invocation ends with None, with a  *)
(* content, or with an exception, chosen when it ends.                     *)
(***************************************************************************)
EXTENDS Integers, Sequences, FiniteSets, TLC

\* ---------------------------------------------------------------- bounds
MaxUrls == 3
MaxMethods == 2
MaxTasks == 3
MaxLimit == 2

\* ------------------------------------------------------- program constants
\* limit=20 in the run_with_semaphore call of retrieve
BatchLimit == 20

\* keys of method_map in _retrieve_single
method_map == {"integrations", "decodo", "firecrawl"}

\* ------------------------------------------------------------ input domains
URLS == {"u1", "u2"}
MethodNames == {"integrations", "decodo", "bogus"}

SeqUpTo(S, n) == UNION {[1..k -> S] : k \in 0..n}

Range(s) == {s[i] : i \in 1..Len(s)}

\* ------------------------------------------------------------------ values
\* What an awaitable ends with: a returned value (None or a content) or an
\* exception.  A content names the URL and the method that produced it.
None == [kind |-> "none", url |-> "", method |-> ""]
Raise == [kind |-> "raise", url |-> "", method |-> ""]
Pending == [kind |-> "pending", url |-> "", method |-> ""]
Content(u, m) == [kind |-> "content", url |-> u, method |-> m]

Outcome(kind, u, m) ==
    IF kind = "content" THEN Content(u, m)
    ELSE IF kind = "raise" THEN Raise
    ELSE None

VARIABLES
    entry,          \* which call is made: retrieve(str), retrieve(list), run_with_semaphore
    urls,           \* argument urls of retrieve (a one-element sequence holds the str)
    methods,        \* argument methods of retrieve
    show_progress,  \* argument show_progress
    limit,          \* argument limit of run_with_semaphore
    pc,             \* position of the calling coroutine
    urls_unique,    \* set(urls) in its iteration order
    tasks,          \* the awaitables handed to run_with_semaphore / awaited directly
    tstate,         \* per task: created, waiting, running, done
    idx,            \* per _retrieve_single: position of the for loop in methods
    log,            \* per _retrieve_single: the backend invocations made so far
    tres,           \* per task: what it ended with
    semaphore,      \* asyncio.Semaphore._value
    waiters,        \* asyncio.Semaphore._waiters (FIFO)
    doneOrder,      \* tasks in the order they ended
    progress_n,     \* progress.n
    results,        \* the list run_with_semaphore returns
    ret,            \* the value the call returns
    session         \* the aiohttp.ClientSession of retrieve: none, open, closed

\* download_hls_video (integrations/bluesky.py)
VARIABLES
    remote,          \* what the servers hold: the playlists behind playlist_url
    hpc,             \* stage download_hls_video is in
    playlist,        \* the parsed playlist in use
    best_playlist,   \* position in playlist.playlists of the chosen variant (0: none)
    base_url,        \* local base_url ("unbound" until assigned)
    seg_i,           \* position of the segment loop
    requests,        \* the session.get calls made so far, with how each ended
    video_segments,  \* the downloaded segment buffers
    combined_content,\* the joined buffer
    ffmpeg_runs,     \* the subprocess.run calls made, with how each ended
    temp_files,      \* the temporary files that exist
    stages,          \* the stages entered so far
    hret             \* what download_hls_video returned

hlsvars == <<remote, hpc, playlist, best_playlist, base_url, seg_i, requests,
             video_segments, combined_content, ffmpeg_runs, temp_files, stages, hret>>

\* get(url, session) of an integration (integrations/x.py, integrations/bluesky.py)
VARIABLES
    backend,         \* the integration whose get is called
    gurl,            \* what the code reads off the url argument
    gpc,             \* position of get
    gtrace,          \* the API requests made, with how each ended
    gret             \* what get ended with

getvars == <<backend, gurl, gpc, gtrace, gret>>

\* backend operations running as tasks of one event loop on one shared session
VARIABLES
    ltasks,          \* the operation each task runs
    lpc,             \* per task: its position
    thread,          \* the task whose blocking call holds the loop's thread (0: none)
    workers,         \* the tasks with a function running in the thread pool
    connector,       \* session._connector of the shared session
    saved,           \* per task: local original_connector of X.search
    strategy,        \* per task: position in search_strategies of X.search
    observed         \* per task: the connectors its session.get calls went through

loopvars == <<ltasks, lpc, thread, workers, connector, saved, strategy, observed>>

\* one backend call with its API requests and the sessions it creates
VARIABLES
    op,              \* the operation called
    apc,             \* its position
    shared_closed,   \* session.closed of the session argument
    access_token,    \* Reddit.access_token
    sessions,        \* the sessions the call created so far: open or closed
    calls,           \* the API requests made, with how each ended
    depth,           \* nesting of Reddit.search inside itself
    aret,            \* what the call ended with
    date_range,      \* start_date and end_date of the Reddit.search call (0: None)
    found_days       \* the creation days of the posts whose URLs search collected

apivars == <<op, apc, shared_closed, access_token, sessions, calls, depth, aret,
             date_range, found_days>>

\* one Reddit instance with the _get_subreddit_description calls of its tasks
VARIABLES
    subreddit_cache, \* Reddit.subreddit_cache: subreddit name -> description
    lookups,         \* per call: its name, its position, what it found and returned
    desc_requests    \* the names of the /about requests sent, in order

cachevars == <<subreddit_cache, lookups, desc_requests>>

\* one _download_with_ytdlp call
VARIABLES
    yin,             \* max_video_size and what yt-dlp and the thumbnail download do
    ypc,             \* its position
    yret             \* the tuple it returns

vars == <<entry, urls, methods, show_progress, limit, pc, urls_unique, tasks,
          tstate, idx, log, tres, semaphore, waiters, doneOrder, progress_n,
          results, ret, session, hlsvars, getvars, loopvars, apivars,
          cachevars, yin, ypc, yret>>

\* what no step of retrieve changes: its arguments and the other components
arguments == <<entry, urls, methods, show_progress, hlsvars, getvars,
               loopvars, apivars, cachevars, yin, ypc, yret>>

\* what no step inside the async with block of retrieve changes
inputs == <<arguments, session>>

retrievevars == <<entry, urls, methods, show_progress, limit, pc, urls_unique,
                  tasks, tstate, idx, log, tres, semaphore, waiters, doneOrder,
                  progress_n, results, ret, session>>

\* what no step of download_hls_video changes of the other components
nonhls == <<retrievevars, getvars, loopvars, apivars, cachevars, yin, ypc, yret>>

\* what no step of an integration's get changes of the other components
nonget == <<retrievevars, hlsvars, loopvars, apivars, cachevars, yin, ypc, yret>>

\* no download_hls_video call is under way
HlsIdle ==
    /\ remote = [master |-> FALSE, bandwidths |-> <<>>, segments |-> <<>>]
    /\ hpc = "idle"
    /\ playlist = [is_variant |-> FALSE, playlists |-> <<>>, segments |-> <<>>]
    /\ best_playlist = 0
    /\ base_url = "unbound"
    /\ seg_i = 1
    /\ requests = <<>>
    /\ video_segments = <<>>
    /\ combined_content = <<>>
    /\ ffmpeg_runs = <<>>
    /\ temp_files = {}
    /\ stages = <<>>
    /\ hret = [kind |-> "pending", format |-> "", data |-> <<>>]

\* no integration get call is under way
GetIdle ==
    /\ backend = [name |-> "none", authenticated |-> FALSE]
    /\ gurl = [domain_ok |-> FALSE, search |-> FALSE, target |-> "other", mock_id |-> FALSE]
    /\ gpc = "idle"
    /\ gtrace = <<>>
    /\ gret = Pending

\* no event loop with backend tasks is under way
LoopIdle ==
    /\ ltasks = <<>>
    /\ lpc = <<>>
    /\ thread = 0
    /\ workers = {}
    /\ connector = "original"
    /\ saved = <<>>
    /\ strategy = <<>>
    /\ observed = <<>>

\* no backend call of the API model is under way
ApiIdle ==
    /\ op = "none"
    /\ apc = "idle"
    /\ shared_closed = FALSE
    /\ access_token = "None"
    /\ sessions = <<>>
    /\ calls = <<>>
    /\ depth = 0
    /\ aret = Pending
    /\ date_range = [start |-> 0, end |-> 0]
    /\ found_days = {}

\* a Reddit instance as constructed (self.subreddit_cache = {}), no lookup
CacheIdle ==
    /\ subreddit_cache = <<>>
    /\ lookups = <<>>
    /\ desc_requests = <<>>

\* no _download_with_ytdlp call is under way
DownloadIdle ==
    /\ yin = <<>>
    /\ ypc = "idle"
    /\ yret = <<>>

\* no retrieve or run_with_semaphore call is under way
RetrieveIdle ==
    /\ entry = "none"
    /\ urls = <<>>
    /\ methods = <<>>
    /\ show_progress = FALSE
    /\ limit = 0
    /\ pc = "idle"
    /\ urls_unique = <<>>
    /\ tasks = <<>>
    /\ tstate = <<>>
    /\ idx = <<>>
    /\ log = <<>>
    /\ tres = <<>>
    /\ semaphore = 0
    /\ waiters = <<>>
    /\ doneOrder = <<>>
    /\ progress_n = 0
    /\ results = <<>>
    /\ ret = <<>>
    /\ session = "none"

\* ---------------------------------------------------------------- helpers
Coro(u) == [coro |-> "retrieve_single", url |-> u]
Awaitable(j) == [coro |-> "awaitable", url |-> "t" \o ToString(j)]

N == Len(tasks)

\* the tasks that exist (create_task has been called for them)
Created == DOMAIN tstate

\* (variant: only the tasks that ended with a value are counted)
NumInWithValue(st) ==
    Cardinality({j \in Created : tstate[j] = st /\ tres[j].kind # "raise"})

NumIn(st) == Cardinality({j \in Created : tstate[j] = st})

LastOf(s) == s[Len(s)]

Awaiting(j) == log[j] # <<>> /\ LastOf(log[j]).out.kind = "pending"

\* (variant: the list itself, without deduplication)
NoDedup(us) == {us}

\* set(urls): the distinct elements, iterated in an arbitrary but fixed order
SetOrders(us) ==
    {o \in [1..Cardinality(Range(us)) -> Range(us)] :
        \A i, j \in 1..Cardinality(Range(us)) : i # j => o[i] # o[j]}

\* dict(zip(urls_unique, results)): for a repeated key the last pair wins
ZipDict(keys, vals) ==
    [u \in Range(keys) |->
        vals[CHOOSE j \in 1..Len(keys) :
                /\ keys[j] = u
                /\ \A k \in 1..Len(keys) : keys[k] = u => k <= j]]

\* (variant: the gathered list is returned as it is)
ReturnGathered(us, keys, vals) == vals

\* [results[url] for url in urls]
Reconstruct(us, keys, vals) ==
    [i \in 1..Len(us) |-> ZipDict(keys, vals)[us[i]]]

\* (variant: results in the order the tasks ended)
GatherAsCompleted(res, order) == [j \in 1..Len(res) |-> res[order[j]]]

\* asyncio.gather(*tasks): results in the order of the tasks
GatherResults(res, order) == [j \in 1..Len(res) |-> res[j]]

\* (variant: no except clause, the exception leaves _retrieve_single)
Propagate(o) == o

\* try: ... except Exception: return None  (around the body of _retrieve_single)
CatchAll(o) == IF o.kind = "raise" THEN None ELSE o

\* (variant: the test is inverted)
IsSuccessInverted(o) == o.kind = "none"

\* (variant: the first result is returned whatever it is)
AlwaysSuccess(o) == TRUE

\* if result is not None: return result
IsSuccess(o) == o.kind # "none"

\* (variant: break instead of continue)
AfterUnknownBreak(i) == Len(methods) + 1

\* continue (after the warning for an unknown method name)
AfterUnknown(i) == i + 1

\* (variant: the slot is released only when the body returns)
ReleaseOnReturn(o) == o.kind # "raise"

\* async with semaphore: the slot is released however the body ends
ReleaseOn(o) == TRUE

\* (variant: a list of one URL is answered like the empty list)
EmptyForOne(e, r) == IF e = "str" THEN r ELSE <<>>

\* return await _retrieve_single(urls, ...) for a string,
\* return [await _retrieve_single(urls[0], ...)] for a list of one URL
SingleResult(e, r) == IF e = "str" THEN r ELSE <<r>>

\* (variant: the session is left open)
NeverClosed(se) == se

\* leaving "async with aiohttp.ClientSession() as session" closes the session
AfterExit(se) == IF se = "open" THEN "closed" ELSE se

\* ------------------------------------------------------------------- Init
Init ==
    /\ CacheIdle
    /\ DownloadIdle
    /\ entry \in {"str", "list", "run_with_semaphore"}
    /\ show_progress \in BOOLEAN
    /\ IF entry = "run_with_semaphore"
       THEN /\ urls = <<>>
            /\ methods = <<>>
            /\ limit \in 1..MaxLimit
            /\ \E n \in 0..MaxTasks : tasks = [j \in 1..n |-> Awaitable(j)]
       ELSE /\ urls \in (IF entry = "str" THEN [1..1 -> URLS] ELSE SeqUpTo(URLS, MaxUrls))
            /\ methods \in SeqUpTo(MethodNames, MaxMethods)
            /\ limit = 0
            /\ tasks = <<>>
    /\ pc = "start"
    /\ urls_unique = <<>>
    /\ tstate = <<>>
    /\ idx = <<>>
    /\ log = <<>>
    /\ tres = <<>>
    /\ semaphore = 0
    /\ waiters = <<>>
    /\ doneOrder = <<>>
    /\ progress_n = 0
    /\ results = <<>>
    /\ ret = <<>>
    /\ session = (IF entry = "run_with_semaphore" THEN "none" ELSE "open")
    /\ HlsIdle
    /\ GetIdle
    /\ LoopIdle
    /\ ApiIdle

\* ------------------------------------------------------------- retrieve
\* The tasks list of n fresh awaitables, none started yet.
Fresh(ts, st) ==
    /\ tasks' = ts
    /\ tstate' = [j \in 1..Len(ts) |-> st]
    /\ idx' = [j \in 1..Len(ts) |-> 1]
    /\ log' = [j \in 1..Len(ts) |-> <<>>]
    /\ tres' = [j \in 1..Len(ts) |-> Pending]

\* retrieve(urls: str): return await _retrieve_single(urls, ...)
RetrieveStr ==
    /\ pc = "start" /\ entry = "str"
    /\ Fresh(<<Coro(urls[1])>>, "running")
    /\ pc' = "single"
    /\ UNCHANGED <<inputs, limit, urls_unique, semaphore, waiters, doneOrder,
                   progress_n, results, ret>>

\* retrieve([]): return []
RetrieveEmpty ==
    /\ pc = "start" /\ entry = "list" /\ Len(urls) = 0
    /\ ret' = <<>>
    /\ pc' = "done"
    /\ UNCHANGED <<arguments, limit, urls_unique, tasks, tstate, idx, log, tres,
                   semaphore, waiters, doneOrder, progress_n, results>>
    /\ session' = AfterExit(session)

\* retrieve([u]): return [await _retrieve_single(urls[0], ...)]
RetrieveOne ==
    /\ pc = "start" /\ entry = "list" /\ Len(urls) = 1
    /\ Fresh(<<Coro(urls[1])>>, "running")
    /\ pc' = "single"
    /\ UNCHANGED <<inputs, limit, urls_unique, semaphore, waiters, doneOrder,
                   progress_n, results, ret>>

\* retrieve(list of two or more): deduplicate, build the coroutines and enter
\* run_with_semaphore(tasks, limit=20): semaphore, create_task for each
RetrieveBatch ==
    /\ pc = "start" /\ entry = "list" /\ Len(urls) >= 2
    /\ \E o \in SetOrders(urls) :
        /\ urls_unique' = o
        /\ Fresh([j \in 1..Len(o) |-> Coro(o[j])], "created")
    /\ limit' = BatchLimit
    /\ semaphore' = BatchLimit
    /\ pc' = IF show_progress THEN "progress" ELSE "gather"
    /\ UNCHANGED <<inputs, waiters, doneOrder, progress_n, results, ret>>

\* run_with_semaphore(tasks, limit) called on its own
RunWithSemaphore ==
    /\ pc = "start" /\ entry = "run_with_semaphore"
    /\ Fresh(tasks, "created")
    /\ semaphore' = limit
    /\ pc' = IF show_progress THEN "progress" ELSE "gather"
    /\ UNCHANGED <<inputs, limit, urls_unique, waiters, doneOrder, progress_n,
                   results, ret>>

\* ------------------------------------------------------ limited_coroutine
\* First step of a created task: async with semaphore (acquire or queue).
\* The loop runs the created tasks in creation order.
TaskStart(j) ==
    /\ tstate[j] = "created"
    /\ \A k \in 1..(j - 1) : tstate[k] # "created"
    /\ IF semaphore > 0 /\ waiters = <<>>
       THEN /\ semaphore' = semaphore - 1
            /\ tstate' = [tstate EXCEPT ![j] = "running"]
            /\ UNCHANGED waiters
       ELSE /\ waiters' = Append(waiters, j)
            /\ tstate' = [tstate EXCEPT ![j] = "waiting"]
            /\ UNCHANGED semaphore
    /\ UNCHANGED <<inputs, limit, pc, urls_unique, tasks, idx, log, tres,
                   doneOrder, progress_n, results, ret>>

\* The awaited t of task j ends with o: leave the async with block (release
\* hands the slot to the first waiter, else gives it back) and end the task.
\* A directly awaited _retrieve_single holds no slot.
TaskEnd(j, o) ==
    /\ tres' = [tres EXCEPT ![j] = o]
    /\ doneOrder' = Append(doneOrder, j)
    /\ IF pc = "single" \/ ~ReleaseOn(o)
       THEN /\ tstate' = [tstate EXCEPT ![j] = "done"]
            /\ UNCHANGED <<semaphore, waiters>>
       ELSE IF waiters # <<>>
       THEN /\ tstate' = [tstate EXCEPT ![j] = "done", ![Head(waiters)] = "running"]
            /\ waiters' = Tail(waiters)
            /\ UNCHANGED semaphore
       ELSE /\ tstate' = [tstate EXCEPT ![j] = "done"]
            /\ semaphore' = semaphore + 1
            /\ UNCHANGED waiters

\* A plain awaitable handed to run_with_semaphore returns or raises.
AwaitableEnd(j, kind) ==
    /\ tstate[j] = "running"
    /\ tasks[j].coro = "awaitable"
    /\ TaskEnd(j, Outcome(kind, tasks[j].url, ""))
    /\ UNCHANGED <<inputs, limit, pc, urls_unique, tasks, idx, log,
                   progress_n, results, ret>>

\* --------------------------------------------------------- _retrieve_single
InLoop(j) ==
    /\ tstate[j] = "running"
    /\ tasks[j].coro = "retrieve_single"
    /\ ~Awaiting(j)

\* if method_name not in method_map: warn and continue
Skip(j) ==
    /\ InLoop(j)
    /\ idx[j] <= Len(methods)
    /\ methods[idx[j]] \notin method_map
    /\ idx' = [idx EXCEPT ![j] = AfterUnknown(idx[j])]
    /\ UNCHANGED <<inputs, limit, pc, urls_unique, tasks, tstate, log, tres,
                   semaphore, waiters, doneOrder, progress_n, results, ret>>

\* result = await method_map[method_name]()   (the call is made)
Invoke(j) ==
    /\ InLoop(j)
    /\ idx[j] <= Len(methods)
    /\ methods[idx[j]] \in method_map
    /\ log' = [log EXCEPT ![j] =
                 Append(@, [i |-> idx[j], name |-> methods[idx[j]], out |-> Pending])]
    /\ UNCHANGED <<inputs, limit, pc, urls_unique, tasks, tstate, idx, tres,
                   semaphore, waiters, doneOrder, progress_n, results, ret>>

\* The awaited backend call ends.  A non-None result is returned; None moves
\* the loop on; an exception leaves the loop for the except clause.
BackendReturn(j, kind) ==
    /\ tstate[j] = "running"
    /\ tasks[j].coro = "retrieve_single"
    /\ Awaiting(j)
    /\ LET o == Outcome(kind, tasks[j].url, methods[idx[j]])
       IN /\ log' = [log EXCEPT ![j][Len(log[j])].out = o]
          /\ IF o.kind = "raise" \/ IsSuccess(o)
             THEN /\ TaskEnd(j, CatchAll(o))
                  /\ UNCHANGED idx
             ELSE /\ idx' = [idx EXCEPT ![j] = idx[j] + 1]
                  /\ UNCHANGED <<tstate, tres, semaphore, waiters, doneOrder>>
    /\ UNCHANGED <<inputs, limit, pc, urls_unique, tasks, progress_n, results, ret>>

\* The for loop is exhausted: return None
AllFailed(j) ==
    /\ InLoop(j)
    /\ idx[j] > Len(methods)
    /\ TaskEnd(j, CatchAll(None))
    /\ UNCHANGED <<inputs, limit, pc, urls_unique, tasks, idx, log,
                   progress_n, results, ret>>

\* ------------------------------------------------------- run_with_semaphore
\* One round of the progress loop: progress.n = sum(task.done() ...); sleep
Poll ==
    /\ pc = "progress"
    /\ progress_n < N
    /\ progress_n' = NumIn("done")
    /\ UNCHANGED <<inputs, limit, pc, urls_unique, tasks, tstate, idx, log, tres,
                   semaphore, waiters, doneOrder, results, ret>>

\* The loop condition fails: progress.close(), go on to gather
ProgressClose ==
    /\ pc = "progress"
    /\ progress_n >= N
    /\ pc' = "gather"
    /\ UNCHANGED <<inputs, limit, urls_unique, tasks, tstate, idx, log, tres,
                   semaphore, waiters, doneOrder, progress_n, results, ret>>

\* await asyncio.gather(*tasks) raises as soon as one task has ended with an
\* exception; the exception leaves run_with_semaphore (and retrieve).
GatherRaise ==
    /\ pc = "gather"
    /\ \E j \in Created : tstate[j] = "done" /\ tres[j].kind = "raise"
    /\ pc' = "raised"
    /\ UNCHANGED <<arguments, limit, urls_unique, tasks, tstate, idx, log, tres,
                   semaphore, waiters, doneOrder, progress_n, results, ret>>
    /\ session' = AfterExit(session)

\* All tasks ended with a value: gather returns the list; retrieve builds its
\* output from it and returns.
GatherReturn ==
    /\ pc = "gather"
    /\ \A j \in Created : tstate[j] = "done" /\ tres[j].kind # "raise"
    /\ results' = GatherResults(tres, doneOrder)
    /\ ret' = IF entry = "list" THEN Reconstruct(urls, urls_unique, results')
              ELSE results'
    /\ pc' = "done"
    /\ UNCHANGED <<arguments, limit, urls_unique, tasks, tstate, idx, log, tres,
                   semaphore, waiters, doneOrder, progress_n>>
    /\ session' = AfterExit(session)

\* The directly awaited _retrieve_single has returned: retrieve returns
SingleReturn ==
    /\ pc = "single"
    /\ tstate[1] = "done"
    /\ IF tres[1].kind = "raise"
       THEN pc' = "raised" /\ UNCHANGED ret
       ELSE /\ pc' = "done"
            /\ ret' = SingleResult(entry, tres[1])
    /\ UNCHANGED <<arguments, limit, urls_unique, tasks, tstate, idx, log, tres,
                   semaphore, waiters, doneOrder, progress_n, results>>
    /\ session' = AfterExit(session)

Next ==
    \/ RetrieveStr
    \/ RetrieveEmpty
    \/ RetrieveOne
    \/ RetrieveBatch
    \/ RunWithSemaphore
    \/ \E j \in Created : TaskStart(j)
    \/ \E j \in Created : \E kind \in {"none", "content", "raise"} : AwaitableEnd(j, kind)
    \/ \E j \in Created : Skip(j)
    \/ \E j \in Created : Invoke(j)
    \/ \E j \in Created : \E kind \in {"none", "content", "raise"} : BackendReturn(j, kind)
    \/ \E j \in Created : AllFailed(j)
    \/ Poll
    \/ ProgressClose
    \/ GatherRaise
    \/ GatherReturn
    \/ SingleReturn

Spec == Init /\ [][Next]_vars

\* The steps the event loop and the backends take on their own.  The loop
\* runs every ready coroutine (the caller and each task); a backend call or
\* a submitted awaitable that has been started returns at some point, which
\* is the premise under which termination is claimed.
LoopStep ==
    \/ RetrieveStr
    \/ RetrieveEmpty
    \/ RetrieveOne
    \/ RetrieveBatch
    \/ RunWithSemaphore
    \/ Poll
    \/ ProgressClose
    \/ GatherRaise
    \/ GatherReturn
    \/ SingleReturn

TaskStep(j) ==
    \/ TaskStart(j)
    \/ Skip(j)
    \/ Invoke(j)
    \/ AllFailed(j)
    \/ \E kind \in {"none", "content", "raise"} : AwaitableEnd(j, kind)
    \/ \E kind \in {"none", "content", "raise"} : BackendReturn(j, kind)

Fairness ==
    /\ WF_vars(LoopStep)
    /\ \A j \in 1..(MaxTasks + 1) : WF_vars(j \in Created /\ TaskStep(j))

SpecFair == Spec /\ Fairness

\* ======================================================================
\* download_hls_video (integrations/bluesky.py)
\* ======================================================================
MaxVariants == 2
MaxSegments == 3

\* declared BANDWIDTH values of the variants of a master playlist
Bandwidths == {500, 1500}

\* a segment URI is absolute (starts with http) or relative
UriKinds == {"abs", "rel"}

\* how a session.get ends: status 200, another status, an exception
FetchOutcomes == {"ok", "status", "exception"}

\* how subprocess.run(['ffmpeg', ...], check=True) ends
FfmpegOutcomes == {"ok", "CalledProcessError", "FileNotFoundError"}

NoVideo == [kind |-> "none", format |-> "", data |-> <<>>]
Video(fmt, d) == [kind |-> "video", format |-> fmt, data |-> d]

\* the playlist_url argument
playlist_url == [dir |-> "https://video.host/watch", name |-> "playlist.m3u8"]

\* url.rsplit('/', 1)[0] + '/'
BaseOf(u) == u.dir

\* urljoin(base, uri) for a relative uri
UrlJoin(base, uri) ==
    [dir |-> IF uri.dir = "" THEN base ELSE base \o "/" \o uri.dir,
     name |-> uri.name]

\* best_playlist.uri of variant k (relative to the master playlist)
VariantUri(k) == [abs |-> FALSE, dir |-> "variant" \o ToString(k), name |-> "video.m3u8"]

\* segment.uri of segment i
SegmentUri(i, kind) ==
    IF kind = "abs"
    THEN [abs |-> TRUE, dir |-> "https://cdn.host", name |-> "seg" \o ToString(i)]
    ELSE [abs |-> FALSE, dir |-> "", name |-> "seg" \o ToString(i)]

\* the bytes the server holds for segment i (i bytes of value i)
SegmentData(i) == [k \in 1..i |-> i]

\* m3u8.loads of the playlist behind playlist_url
ParseFirst(r) ==
    IF r.master
    THEN [is_variant |-> TRUE, playlists |-> r.bandwidths, segments |-> <<>>]
    ELSE [is_variant |-> FALSE, playlists |-> <<>>,
          segments |-> [i \in 1..Len(r.segments) |-> SegmentUri(i, r.segments[i])]]

\* m3u8.loads of a variant's media playlist
ParseVariant(r) ==
    [is_variant |-> FALSE, playlists |-> <<>>,
     segments |-> [i \in 1..Len(r.segments) |-> SegmentUri(i, r.segments[i])]]

\* (variant: only an exception counts, the status is not looked at)
FetchFailsOnException(o) == o = "exception"

\* response.status != 200 returns None; an exception reaches the outer except
FetchFails(o) == o # "ok"

\* (variant: a master playlist is not recognised)
NeverVariant(pl) == FALSE

\* if playlist.is_variant
IsVariant(pl) == pl.is_variant

\* best_playlist = playlist.playlists[-1]
BestPlaylist(pls) == Len(pls)

\* (variant: a new buffer is put in front)
PrependSegment(vs, d) == <<d>> \o vs

\* video_segments.append(segment_data)
AppendSegment(vs, d) == Append(vs, d)

\* (variant: the list is joined even when it is empty)
AlwaysJoin(vs) == TRUE

\* if video_segments
HasSegments(vs) == vs # <<>>

\* b''.join(video_segments)
RECURSIVE Join(_)
Join(vs) == IF vs = <<>> THEN <<>> ELSE Head(vs) \o Join(Tail(vs))

\* (variant: no fallback, the failure ends the call with None)
NoFallback(blob) == NoVideo

\* except CalledProcessError / FileNotFoundError: Video(binary_data=combined_content)
Fallback(blob) == Video("ts", blob)

InitHls ==
    /\ CacheIdle
    /\ DownloadIdle
    /\ RetrieveIdle
    /\ GetIdle
    /\ LoopIdle
    /\ ApiIdle
    /\ remote \in
          {[master |-> TRUE, bandwidths |-> b, segments |-> sg] :
              b \in SeqUpTo(Bandwidths, MaxVariants) \ {<<>>},
              sg \in SeqUpTo(UriKinds, MaxSegments)}
          \cup
          {[master |-> FALSE, bandwidths |-> <<>>, segments |-> sg] :
              sg \in SeqUpTo(UriKinds, MaxSegments)}
    /\ hpc = "FetchPlaylist"
    /\ playlist = [is_variant |-> FALSE, playlists |-> <<>>, segments |-> <<>>]
    /\ best_playlist = 0
    /\ base_url = "unbound"
    /\ seg_i = 1
    /\ requests = <<>>
    /\ video_segments = <<>>
    /\ combined_content = <<>>
    /\ ffmpeg_runs = <<>>
    /\ temp_files = {}
    /\ stages = <<"FetchPlaylist">>
    /\ hret = [kind |-> "pending", format |-> "", data |-> <<>>]

\* the call moves on to stage st
Enter(st) ==
    /\ hpc' = st
    /\ stages' = Append(stages, st)

\* return None (from a status check, or from the outer except clause)
ReturnNone ==
    /\ hret' = NoVideo
    /\ Enter("Done")

\* session.get(playlist_url), status check, m3u8.loads
FetchPlaylist(o) ==
    /\ hpc = "FetchPlaylist"
    /\ requests' = Append(requests, [kind |-> "playlist", i |-> 0, url |-> playlist_url, out |-> o])
    /\ IF FetchFails(o)
       THEN /\ ReturnNone
            /\ UNCHANGED playlist
       ELSE /\ playlist' = ParseFirst(remote)
            /\ Enter(IF IsVariant(playlist') THEN "SelectVariant" ELSE "FetchSegments")
            /\ UNCHANGED hret
    /\ UNCHANGED <<nonhls, remote, best_playlist, base_url, seg_i,
                   video_segments, combined_content, ffmpeg_runs, temp_files>>

\* best_playlist = playlist.playlists[-1]; base_url from playlist_url
SelectVariant ==
    /\ hpc = "SelectVariant"
    /\ best_playlist' = BestPlaylist(playlist.playlists)
    /\ base_url' = BaseOf(playlist_url)
    /\ Enter("FetchVariantPlaylist")
    /\ UNCHANGED <<nonhls, remote, playlist, seg_i, requests,
                   video_segments, combined_content, ffmpeg_runs, temp_files, hret>>

\* session.get(variant_url), status check, m3u8.loads, base_url from variant_url
FetchVariantPlaylist(o) ==
    /\ hpc = "FetchVariantPlaylist"
    /\ LET variant_url == UrlJoin(base_url, VariantUri(best_playlist))
       IN /\ requests' = Append(requests,
                 [kind |-> "variant", i |-> best_playlist, url |-> variant_url, out |-> o])
          /\ IF FetchFails(o)
             THEN /\ ReturnNone
                  /\ UNCHANGED <<playlist, base_url>>
             ELSE /\ playlist' = ParseVariant(remote)
                  /\ base_url' = BaseOf(variant_url)
                  /\ Enter("FetchSegments")
                  /\ UNCHANGED hret
    /\ UNCHANGED <<nonhls, remote, best_playlist, seg_i,
                   video_segments, combined_content, ffmpeg_runs, temp_files>>

\* the segment URL can be built: absolute, or base_url is bound
CanResolve(uri) == uri.abs \/ base_url # "unbound"

\* one round of the segment loop: build the URL, session.get, keep the data
FetchSegment(o) ==
    /\ hpc = "FetchSegments"
    /\ seg_i <= Len(playlist.segments)
    /\ CanResolve(playlist.segments[seg_i])
    /\ LET uri == playlist.segments[seg_i]
           segment_url == IF uri.abs THEN [dir |-> uri.dir, name |-> uri.name]
                          ELSE UrlJoin(base_url, uri)
       IN requests' = Append(requests,
              [kind |-> "segment", i |-> seg_i, url |-> segment_url, out |-> o])
    /\ video_segments' = IF o = "ok"
                         THEN AppendSegment(video_segments, SegmentData(seg_i))
                         ELSE video_segments
    /\ seg_i' = seg_i + 1
    /\ UNCHANGED <<nonhls, remote, hpc, playlist, best_playlist,
                   base_url, combined_content, ffmpeg_runs, temp_files, stages, hret>>

\* urljoin(base_url, segment.uri) with base_url never assigned: the
\* UnboundLocalError reaches the outer except clause
SegmentUrlError ==
    /\ hpc = "FetchSegments"
    /\ seg_i <= Len(playlist.segments)
    /\ ~CanResolve(playlist.segments[seg_i])
    /\ ReturnNone
    /\ UNCHANGED <<nonhls, remote, playlist, best_playlist, base_url,
                   seg_i, requests, video_segments, combined_content, ffmpeg_runs,
                   temp_files>>

\* after the loop: if video_segments, join and write the temporary files;
\* else fall through to the final return None
Concatenate ==
    /\ hpc = "FetchSegments"
    /\ seg_i > Len(playlist.segments)
    /\ IF HasSegments(video_segments)
       THEN /\ combined_content' = Join(video_segments)
            /\ temp_files' = {"ts", "mp4"}
            /\ hpc' = "Transcode"
            /\ stages' = stages \o <<"Concatenate", "Transcode">>
            /\ UNCHANGED hret
       ELSE /\ ReturnNone
            /\ UNCHANGED <<combined_content, temp_files>>
    /\ UNCHANGED <<nonhls, remote, playlist, best_playlist, base_url,
                   seg_i, requests, video_segments, ffmpeg_runs>>

\* subprocess.run(ffmpeg): the MP4 on success (temporary files unlinked),
\* the joined TS buffer when ffmpeg fails or is not found
Transcode(o) ==
    /\ hpc = "Transcode"
    /\ ffmpeg_runs' = Append(ffmpeg_runs, o)
    /\ IF o = "ok"
       THEN /\ hret' = Video("mp4", combined_content)
            /\ temp_files' = {}
       ELSE /\ hret' = Fallback(combined_content)
            /\ UNCHANGED temp_files
    /\ Enter("Done")
    /\ UNCHANGED <<nonhls, remote, playlist, best_playlist, base_url,
                   seg_i, requests, video_segments, combined_content>>

NextHls ==
    \/ \E o \in FetchOutcomes : FetchPlaylist(o)
    \/ SelectVariant
    \/ \E o \in FetchOutcomes : FetchVariantPlaylist(o)
    \/ \E o \in FetchOutcomes : FetchSegment(o)
    \/ SegmentUrlError
    \/ Concatenate
    \/ \E o \in FfmpegOutcomes : Transcode(o)

SpecHls == InitHls /\ [][NextHls]_vars

\* ======================================================================
\* Integrations: the public get(url, session) of X and of Bluesky
\* (integrations/x.py, integrations/bluesky.py).  One call is modelled
\* from its arguments to its return or to the exception that leaves it.
\* The remote API is external: every request ends with one of
\* RequestOutcomes, chosen when it ends.
\* ======================================================================
Backends == {"X", "Bluesky"}

\* What the extractors find in the URL: a post (tweet ID, or "post" in the
\* URL), a profile (user name), or neither.
Targets == {"post", "profile", "other"}

\* _make_request: JSON with data, JSON without data, raise_for_status
\* raising, session.get raising.
RequestOutcomes == {"data", "no_data", "http_error", "network_error"}

\* Media types of a tweet's attachments ("none": no attachment).
MediaTypes == {"none", "photo", "video", "unsupported"}

\* client.get_post_thread: a thread, a not-found or blocked marker, or an
\* exception of the client.
ThreadOutcomes == {"ok", "notFoundPost", "blockedPost", "exception"}

\* The sequence built from the data the API returned.
MultimodalSequence == Content("u1", "integrations")

\* The fabricated sequence of _get_mock_tweet: not None, and not content of
\* the URL.
MockTweet == Content("mock", "integrations")

Step(st, o) == [step |-> st, out |-> o]

\* Bluesky's login succeeded or failed in the constructor; X.get reads no
\* such flag.
InitGet ==
    /\ CacheIdle
    /\ DownloadIdle
    /\ RetrieveIdle
    /\ HlsIdle
    /\ LoopIdle
    /\ ApiIdle
    /\ backend \in {[name |-> "X", authenticated |-> TRUE]} \cup
                   {[name |-> "Bluesky", authenticated |-> a] : a \in BOOLEAN}
    /\ gurl \in {u \in [domain_ok : BOOLEAN, search : BOOLEAN,
                        target : Targets, mock_id : BOOLEAN] :
                    u.mock_id => u.target = "post"}
    /\ gpc = "get"
    /\ gtrace = <<>>
    /\ gret = Pending

\* The call ends: with a value, or with an exception leaving get.
GetReturn(v, st, o) ==
    /\ gret' = v
    /\ gpc' = "Done"
    /\ gtrace' = Append(gtrace, Step(st, o))

GetCall(callee) ==
    /\ gpc' = callee
    /\ gtrace' = Append(gtrace, Step("get", callee))
    /\ gret' = gret

\* X.get
XGet ==
    /\ backend.name = "X"
    /\ gpc = "get"
    /\ IF ~gurl.domain_ok THEN GetReturn(Raise, "get", "AssertionError")
       ELSE IF gurl.search THEN GetReturn(None, "get", "search")
       ELSE IF gurl.target = "post" THEN GetCall("_get_tweet")
       ELSE IF gurl.target = "profile" THEN GetCall("_get_user")
       ELSE GetReturn(None, "get", "no_username")
    /\ UNCHANGED <<nonget, backend, gurl>>

\* X._get_tweet up to the request: the three mock IDs are answered
\* without a request.
XGetTweet ==
    /\ backend.name = "X"
    /\ gpc = "_get_tweet"
    /\ IF gurl.mock_id
       THEN GetReturn(MockTweet, "_get_tweet", "mock_id")
       ELSE /\ gpc' = "tweets_request"
            /\ UNCHANGED <<gtrace, gret>>
    /\ UNCHANGED <<nonget, backend, gurl>>

\* The request for the tweet and the two handlers around it.
XTweetRequest(o) ==
    /\ backend.name = "X"
    /\ gpc = "tweets_request"
    /\ IF o = "data"
       THEN /\ gpc' = "tweet_build"
            /\ gtrace' = Append(gtrace, Step("tweets_request", o))
            /\ gret' = gret
       ELSE GetReturn(MockTweet, "tweets_request", o)
    /\ UNCHANGED <<nonget, backend, gurl>>

\* The rest of _get_tweet: no author in the response ends the function
\* without a return statement; a medium of an unknown type raises.
XTweetBuild(author, m) ==
    /\ backend.name = "X"
    /\ gpc = "tweet_build"
    /\ IF ~author THEN GetReturn(None, "tweet_build", "no_author")
       ELSE IF m = "unsupported" THEN GetReturn(Raise, "tweet_build", "ValueError")
       ELSE GetReturn(MultimodalSequence, "tweet_build", m)
    /\ UNCHANGED <<nonget, backend, gurl>>

\* X._get_user: the request is not inside a try statement.
XGetUser(o) ==
    /\ backend.name = "X"
    /\ gpc = "_get_user"
    /\ IF o = "data" THEN GetReturn(MultimodalSequence, "users_request", o)
       ELSE IF o = "no_data" THEN GetReturn(None, "users_request", o)
       ELSE GetReturn(Raise, "users_request", o)
    /\ UNCHANGED <<nonget, backend, gurl>>

\* Bluesky.get
BlueskyGet ==
    /\ backend.name = "Bluesky"
    /\ gpc = "get"
    /\ IF ~backend.authenticated THEN GetReturn(None, "get", "not_authenticated")
       ELSE IF ~gurl.domain_ok THEN GetReturn(None, "get", "invalid_domain")
       ELSE IF gurl.target = "post" THEN GetCall("_retrieve_post")
       ELSE GetCall("_retrieve_profile")
    /\ UNCHANGED <<nonget, backend, gurl>>

\* Bluesky._retrieve_post: no URI, or anything raised inside the try
\* statement, gives None.
BlueskyRetrievePost(uri_ok, o) ==
    /\ backend.name = "Bluesky"
    /\ gpc = "_retrieve_post"
    /\ IF ~uri_ok THEN GetReturn(None, "_construct_uri", "no_uri")
       ELSE IF o = "ok" THEN GetReturn(MultimodalSequence, "get_post_thread", o)
       ELSE GetReturn(None, "get_post_thread", o)
    /\ UNCHANGED <<nonget, backend, gurl>>

\* Bluesky._retrieve_profile: no try statement; avatar and banner are bound
\* only when the profile has them, and both are read.
BlueskyRetrieveProfile(o, avatar, banner) ==
    /\ backend.name = "Bluesky"
    /\ gpc = "_retrieve_profile"
    /\ IF o # "ok" THEN GetReturn(Raise, "get_profile", o)
       ELSE IF ~(avatar /\ banner) THEN GetReturn(Raise, "get_profile", "UnboundLocalError")
       ELSE GetReturn(MultimodalSequence, "get_profile", o)
    /\ UNCHANGED <<nonget, backend, gurl>>

NextGet ==
    \/ XGet
    \/ XGetTweet
    \/ \E o \in RequestOutcomes : XTweetRequest(o)
    \/ \E author \in BOOLEAN, m \in MediaTypes : XTweetBuild(author, m)
    \/ \E o \in RequestOutcomes : XGetUser(o)
    \/ BlueskyGet
    \/ \E uri_ok \in BOOLEAN, o \in ThreadOutcomes : BlueskyRetrievePost(uri_ok, o)
    \/ \E o \in {"ok", "exception"}, avatar \in BOOLEAN, banner \in BOOLEAN :
          BlueskyRetrieveProfile(o, avatar, banner)

SpecGet == InitGet /\ [][NextGet]_vars

\* ======================================================================
\* Backend operations as tasks of one event loop (asyncio) that share the
\* session: the transcode of download_hls_video (integrations/bluesky.py),
\* get_content_with_ytdlp (scraping/ytdlp.py), X.search
\* (integrations/x.py) and an operation that only issues a request.
\* The loop has one thread.  A coroutine runs on it from one await to the
\* next; a call that blocks (subprocess.run, YoutubeDL.extract_info) keeps
\* the thread until the external work has ended.  A function handed to
\* asyncio.to_thread runs on a pool thread beside the loop.
\* ======================================================================
MaxLoopTasks == 2

\* search_strategies of X.search has four entries
NumStrategies == 4

TaskKinds == {"hls", "ytdlp", "x_search", "fetch"}

LoopTasks == DOMAIN ltasks

\* the connector X.search of task t creates (connector = aiohttp.TCPConnector(...))
SearchConnector(t) == "search" \o ToString(t)

InitLoop ==
    /\ CacheIdle
    /\ DownloadIdle
    /\ RetrieveIdle
    /\ HlsIdle
    /\ GetIdle
    /\ ApiIdle
    /\ ltasks \in UNION {[1..n -> TaskKinds] : n \in 1..MaxLoopTasks}
    /\ lpc = [t \in DOMAIN ltasks |-> "start"]
    /\ thread = 0
    /\ workers = {}
    /\ connector = "original"
    /\ saved = [t \in DOMAIN ltasks |-> "unbound"]
    /\ strategy = [t \in DOMAIN ltasks |-> 1]
    /\ observed = [t \in DOMAIN ltasks |-> {}]

\* the loop's thread is not inside a blocking call, so it can run a ready
\* coroutine
LoopFree == thread = 0

nonloop == <<retrievevars, hlsvars, getvars, apivars, cachevars, yin, ypc, yret>>

\* async with session.get(...): the request goes through the connector the
\* session has at that moment
SessionGet(t) == observed' = [observed EXCEPT ![t] = @ \cup {connector}]

\* an operation that issues one request on the shared session and returns
Fetch(t) ==
    /\ ltasks[t] = "fetch" /\ lpc[t] = "start"
    /\ LoopFree
    /\ SessionGet(t)
    /\ lpc' = [lpc EXCEPT ![t] = "response"]
    /\ UNCHANGED <<nonloop, ltasks, thread, workers, connector, saved, strategy>>

FetchReturn(t) ==
    /\ ltasks[t] = "fetch" /\ lpc[t] = "response"
    /\ LoopFree
    /\ lpc' = [lpc EXCEPT ![t] = "done"]
    /\ UNCHANGED <<nonloop, ltasks, thread, workers, connector, saved, strategy, observed>>

\* download_hls_video up to the transcode: playlist and segment requests
HlsDownload(t) ==
    /\ ltasks[t] = "hls" /\ lpc[t] = "start"
    /\ LoopFree
    /\ SessionGet(t)
    /\ lpc' = [lpc EXCEPT ![t] = "segments"]
    /\ UNCHANGED <<nonloop, ltasks, thread, workers, connector, saved, strategy>>

\* subprocess.run(['ffmpeg', ...]) is called from the coroutine: the call
\* returns when the process has exited
HlsTranscodeBegin(t) ==
    /\ ltasks[t] = "hls" /\ lpc[t] = "segments"
    /\ LoopFree
    /\ thread' = t
    /\ lpc' = [lpc EXCEPT ![t] = "ffmpeg"]
    /\ UNCHANGED <<nonloop, ltasks, workers, connector, saved, strategy, observed>>

\* the ffmpeg process exits; download_hls_video returns without another await
HlsTranscodeEnd(t) ==
    /\ ltasks[t] = "hls" /\ lpc[t] = "ffmpeg"
    /\ thread = t
    /\ thread' = 0
    /\ lpc' = [lpc EXCEPT ![t] = "done"]
    /\ UNCHANGED <<nonloop, ltasks, workers, connector, saved, strategy, observed>>

\* coroutine = await asyncio.to_thread(_download_with_ytdlp, url, session)
YtToThread(t) ==
    /\ ltasks[t] = "ytdlp" /\ lpc[t] = "start"
    /\ LoopFree
    /\ workers' = workers \cup {t}
    /\ lpc' = [lpc EXCEPT ![t] = "to_thread"]
    /\ UNCHANGED <<nonloop, ltasks, thread, connector, saved, strategy, observed>>

\* the pool thread calls _download_with_ytdlp, an async def: the call only
\* makes the coroutine object and returns it, its body has not run
YtWorkerReturn(t) ==
    /\ ltasks[t] = "ytdlp" /\ lpc[t] = "to_thread"
    /\ t \in workers
    /\ workers' = workers \ {t}
    /\ lpc' = [lpc EXCEPT ![t] = "coroutine"]
    /\ UNCHANGED <<nonloop, ltasks, thread, connector, saved, strategy, observed>>

\* video, thumbnail, metadata = await coroutine: the body runs on the loop
\* and calls ydl.extract_info(url, download=True)
YtExtractBegin(t) ==
    /\ ltasks[t] = "ytdlp" /\ lpc[t] = "coroutine"
    /\ LoopFree
    /\ thread' = t
    /\ lpc' = [lpc EXCEPT ![t] = "extract_info"]
    /\ UNCHANGED <<nonloop, ltasks, workers, connector, saved, strategy, observed>>

\* extract_info returns; the body goes on to await download_image(thumbnail)
YtExtractEnd(t) ==
    /\ ltasks[t] = "ytdlp" /\ lpc[t] = "extract_info"
    /\ thread = t
    /\ thread' = 0
    /\ SessionGet(t)
    /\ lpc' = [lpc EXCEPT ![t] = "thumbnail"]
    /\ UNCHANGED <<nonloop, ltasks, workers, connector, saved, strategy>>

YtReturn(t) ==
    /\ ltasks[t] = "ytdlp" /\ lpc[t] = "thumbnail"
    /\ LoopFree
    /\ lpc' = [lpc EXCEPT ![t] = "done"]
    /\ UNCHANGED <<nonloop, ltasks, thread, workers, connector, saved, strategy, observed>>

\* X.search, one round of the strategy loop with an open session:
\* original_connector = session._connector; session._connector = connector;
\* then the request is awaited
XSearchRequest(t) ==
    /\ ltasks[t] = "x_search" /\ lpc[t] = "start"
    /\ LoopFree
    /\ saved' = [saved EXCEPT ![t] = connector]
    /\ connector' = SearchConnector(t)
    /\ observed' = [observed EXCEPT ![t] = @ \cup {SearchConnector(t)}]
    /\ lpc' = [lpc EXCEPT ![t] = "search_get"]
    /\ UNCHANGED <<nonloop, ltasks, thread, workers, strategy>>

\* the response (or an exception) arrives: finally restores
\* session._connector; results end the loop, none or an exception goes on
\* to the next strategy
XSearchResponse(t, found) ==
    /\ ltasks[t] = "x_search" /\ lpc[t] = "search_get"
    /\ LoopFree
    /\ connector' = saved[t]
    /\ IF found \/ strategy[t] = NumStrategies
       THEN lpc' = [lpc EXCEPT ![t] = "done"] /\ UNCHANGED strategy
       ELSE /\ lpc' = [lpc EXCEPT ![t] = "start"]
            /\ strategy' = [strategy EXCEPT ![t] = @ + 1]
    /\ UNCHANGED <<nonloop, ltasks, thread, workers, saved, observed>>

\* the steps of task t that need the loop's thread
OnLoop(t) ==
    \/ Fetch(t)
    \/ FetchReturn(t)
    \/ HlsDownload(t)
    \/ HlsTranscodeBegin(t)
    \/ YtToThread(t)
    \/ YtExtractBegin(t)
    \/ YtReturn(t)
    \/ XSearchRequest(t)
    \/ \E found \in BOOLEAN : XSearchResponse(t, found)

NextLoop ==
    \/ \E t \in LoopTasks : Fetch(t)
    \/ \E t \in LoopTasks : FetchReturn(t)
    \/ \E t \in LoopTasks : HlsDownload(t)
    \/ \E t \in LoopTasks : HlsTranscodeBegin(t)
    \/ \E t \in LoopTasks : HlsTranscodeEnd(t)
    \/ \E t \in LoopTasks : YtToThread(t)
    \/ \E t \in LoopTasks : YtWorkerReturn(t)
    \/ \E t \in LoopTasks : YtExtractBegin(t)
    \/ \E t \in LoopTasks : YtExtractEnd(t)
    \/ \E t \in LoopTasks : YtReturn(t)
    \/ \E t \in LoopTasks : XSearchRequest(t)
    \/ \E t \in LoopTasks : \E found \in BOOLEAN : XSearchResponse(t, found)

SpecLoop == InitLoop /\ [][NextLoop]_vars

\* ======================================================================
\* One backend call with its API requests, its token and the sessions it
\* creates for itself: Reddit.get with _get_post, Reddit.search
\* (integrations/reddit.py) and X._make_request (integrations/x.py).
\* The integration is configured and the URL is a post URL of its domain.
\* The remote API is external: each request ends with one of the outcomes
\* below, chosen when it ends.
\* ======================================================================
MaxRecursion == 3

MaxDay == 2

Ops == {"Reddit.get", "Reddit.search", "X._make_request"}

\* _authenticate: status 200 with a token, or anything else (returns False)
AuthOutcomes == {"ok", "fail"}

\* a request of Reddit: a status, an exception, or the RuntimeError
\* "Event loop is closed"
RedditOutcomes == {"200", "401", "500", "exception", "loop_closed"}

\* X._make_request: JSON, raise_for_status raising, session.get raising
XOutcomes == {"ok", "http_error", "network_error"}

\* the empty list Reddit.search returns for "no result"
EmptyList == [kind |-> "empty", url |-> "", method |-> ""]

Call(req, o) == [req |-> req, out |-> o, depth |-> depth]

Open(n) == sessions' = (n :> "open") @@ sessions

\* await <session>.close() for the sessions of ns that exist
Closed(ss, ns) == [n \in DOMAIN ss |-> IF n \in ns THEN "closed" ELSE ss[n]]

\* start_date and end_date of the running frame of Reddit.search: the
\* arguments of the call in the outer frame, the defaults (None) in the frames
\* entered by "return await self.search(query, session, max_results)"
FrameDates == IF depth = 0 THEN date_range ELSE [start |-> 0, end |-> 0]

\* the date filter: a post is skipped when start_timestamp is set and
\* created_utc < start_timestamp, or end_timestamp is set and
\* created_utc > end_timestamp
InRange(t, d) == ~(d.start # 0 /\ t < d.start) /\ ~(d.end # 0 /\ t > d.end)

nonapi == <<retrievevars, hlsvars, getvars, loopvars, cachevars, yin, ypc, yret>>

InitApi ==
    /\ CacheIdle
    /\ DownloadIdle
    /\ RetrieveIdle
    /\ HlsIdle
    /\ GetIdle
    /\ LoopIdle
    /\ op \in Ops
    /\ apc = "start"
    /\ shared_closed \in BOOLEAN
    /\ access_token \in (IF op = "X._make_request" THEN {"None"} ELSE {"None", "token"})
    /\ sessions = <<>>
    /\ calls = <<>>
    /\ depth = 0
    /\ aret = Pending
    /\ date_range \in (IF op = "Reddit.search"
                         THEN [start : 0..MaxDay, end : 0..MaxDay]
                         ELSE {[start |-> 0, end |-> 0]})
    /\ found_days = {}

\* Reddit.get: if session.closed, a session of its own is created
RedditGetSession ==
    /\ op = "Reddit.get" /\ apc = "start"
    /\ IF shared_closed THEN Open("private") ELSE UNCHANGED sessions
    /\ apc' = IF access_token = "None" THEN "authenticate" ELSE "_get_post"
    /\ UNCHANGED <<nonapi, op, date_range, found_days, shared_closed, access_token, calls, depth, aret>>

\* return inside the try statement of Reddit.get: the finally clause closes
\* the session get created, then the call ends.  ss: the sessions as the
\* callee left them.
RedditGetReturn(v, ss) ==
    /\ aret' = v
    /\ sessions' = Closed(ss, {"private"})
    /\ apc' = "Done"

\* if not self.access_token: await self._authenticate(session)
RedditGetAuthenticate(o) ==
    /\ op = "Reddit.get" /\ apc = "authenticate"
    /\ calls' = Append(calls, Call("auth", o))
    /\ IF o = "ok"
       THEN /\ access_token' = "token"
            /\ apc' = "_get_post"
            /\ UNCHANGED <<sessions, aret>>
       ELSE /\ RedditGetReturn(None, sessions)
            /\ UNCHANGED access_token
    /\ UNCHANGED <<nonapi, op, date_range, found_days, shared_closed, depth>>

\* _get_post: the request.  Any status but 200 and any exception give None;
\* "Event loop is closed" goes to the retry with a fresh session.
RedditPostRequest(o) ==
    /\ op = "Reddit.get" /\ apc = "_get_post"
    /\ calls' = Append(calls, Call("post", o))
    /\ IF o = "loop_closed"
       THEN /\ Open("fresh")
            /\ apc' = "retry"
            /\ UNCHANGED aret
       ELSE RedditGetReturn(IF o = "200" THEN Content("u1", "integrations") ELSE None,
                            sessions)
    /\ UNCHANGED <<nonapi, op, date_range, found_days, shared_closed, access_token, depth>>

\* _get_post: the retry.  fresh_session is closed before each return of the
\* try block; an exception goes to "except Exception as retry_error".
RedditPostRetry(o) ==
    /\ op = "Reddit.get" /\ apc = "retry"
    /\ calls' = Append(calls, Call("post_retry", o))
    /\ IF o = "200"
       THEN RedditGetReturn(Content("u1", "integrations"), Closed(sessions, {"fresh"}))
       ELSE IF o \in {"401", "500"}
       THEN RedditGetReturn(None, Closed(sessions, {"fresh"}))
       ELSE RedditGetReturn(None, sessions)
    /\ UNCHANGED <<nonapi, op, date_range, found_days, shared_closed, access_token, depth>>

\* Reddit.search: if not self.access_token: authenticate
RedditSearchEnter ==
    /\ op = "Reddit.search" /\ apc = "start"
    /\ apc' = IF access_token = "None" THEN "search_auth" ELSE "search_request"
    /\ UNCHANGED <<nonapi, op, date_range, found_days, shared_closed, access_token, sessions, calls, depth, aret>>

RedditSearchAuthenticate(o) ==
    /\ op = "Reddit.search" /\ apc = "search_auth"
    /\ calls' = Append(calls, Call("auth", o))
    /\ IF o = "ok"
       THEN /\ access_token' = "token"
            /\ apc' = "search_request"
            /\ UNCHANGED aret
       ELSE /\ aret' = EmptyList
            /\ apc' = "Done"
            /\ UNCHANGED access_token
    /\ UNCHANGED <<nonapi, op, date_range, found_days, shared_closed, sessions, depth>>

\* the search request: 200 returns the URLs of the posts that pass the date
\* filter of this frame (the response holds one post per day), 401 drops
\* the token and goes to re-authenticate, everything else returns []
RedditSearchRequest(o) ==
    /\ op = "Reddit.search" /\ apc = "search_request"
    /\ o # "loop_closed"
    /\ calls' = Append(calls, Call("search", o))
    /\ IF o = "401"
       THEN /\ access_token' = "None"
            /\ apc' = "reauthenticate"
            /\ UNCHANGED <<aret, found_days>>
       ELSE /\ aret' = IF o = "200" THEN Content("u1", "integrations") ELSE EmptyList
            /\ found_days' = IF o = "200"
                              THEN {t \in 1..MaxDay : InRange(t, FrameDates)}
                              ELSE found_days
            /\ apc' = "Done"
            /\ UNCHANGED access_token
    /\ UNCHANGED <<nonapi, op, date_range, shared_closed, sessions, depth>>

\* auth_success = await self._authenticate(session); on success
\* "return await self.search(query, session, max_results)": the nested call
\* finds the token set and goes to its request.  At the interpreter's
\* recursion limit the nested call raises RecursionError, which the except
\* clause of the calling frame turns into [].
RedditReauthenticate(o) ==
    /\ op = "Reddit.search" /\ apc = "reauthenticate"
    /\ calls' = Append(calls, Call("reauth", o))
    /\ IF o = "ok" /\ depth < MaxRecursion
       THEN /\ access_token' = "token"
            /\ depth' = depth + 1
            /\ apc' = "search_request"
            /\ UNCHANGED aret
       ELSE /\ access_token' = IF o = "ok" THEN "token" ELSE access_token
            /\ aret' = EmptyList
            /\ apc' = "Done"
            /\ UNCHANGED depth
    /\ UNCHANGED <<nonapi, op, date_range, found_days, shared_closed, sessions>>

\* X._make_request: a session of its own if session.closed; it is closed
\* after the response has been read; an exception is logged and re-raised
XMakeRequestSession ==
    /\ op = "X._make_request" /\ apc = "start"
    /\ IF shared_closed THEN Open("private") ELSE UNCHANGED sessions
    /\ apc' = "request"
    /\ UNCHANGED <<nonapi, op, date_range, found_days, shared_closed, access_token, calls, depth, aret>>

XMakeRequest(o) ==
    /\ op = "X._make_request" /\ apc = "request"
    /\ calls' = Append(calls, Call("x_request", o))
    /\ IF o = "ok"
       THEN /\ sessions' = Closed(sessions, {"private"})
            /\ aret' = Content("u1", "integrations")
       ELSE /\ aret' = Raise
            /\ UNCHANGED sessions
    /\ apc' = "Done"
    /\ UNCHANGED <<nonapi, op, date_range, found_days, shared_closed, access_token, depth>>

NextApi ==
    \/ RedditGetSession
    \/ \E o \in AuthOutcomes : RedditGetAuthenticate(o)
    \/ \E o \in RedditOutcomes : RedditPostRequest(o)
    \/ \E o \in RedditOutcomes \ {"loop_closed"} : RedditPostRetry(o)
    \/ RedditSearchEnter
    \/ \E o \in AuthOutcomes : RedditSearchAuthenticate(o)
    \/ \E o \in RedditOutcomes : RedditSearchRequest(o)
    \/ \E o \in AuthOutcomes : RedditReauthenticate(o)
    \/ XMakeRequestSession
    \/ \E o \in XOutcomes : XMakeRequest(o)

SpecApi == InitApi /\ [][NextApi]_vars

\* ======================================================================
\* Reddit._get_subreddit_description (integrations/reddit.py): the calls
\* that the retrieval tasks of one event loop make on one Reddit instance.
\* A call runs from its cache test to its request without giving up the
\* loop, and from the response to its return; other calls run in between.
\* ======================================================================
CacheBound == 2

MaxLookups == 3

\* (variant: a None entry counts as a miss)
HitIfDescription(c, name) == name \in DOMAIN c /\ c[name] # "None"

\* if subreddit_name in self.subreddit_cache
CacheHit(c, name) == name \in DOMAIN c

InitCache ==
    /\ RetrieveIdle
    /\ HlsIdle
    /\ GetIdle
    /\ LoopIdle
    /\ ApiIdle
    /\ DownloadIdle
    /\ subreddit_cache = <<>>
    /\ lookups \in [1..MaxLookups ->
                       [name : 1..(CacheBound + 1), pc : {"start"},
                        had_entry : {FALSE}, requested : {FALSE}, ret : {"pending"}]]
    /\ desc_requests = <<>>

\* the cache test: a hit returns the entry; a miss sends the /about request
\* and awaits the response
Lookup(t) ==
    /\ lookups[t].pc = "start"
    /\ LET name == lookups[t].name
           entry_exists == name \in DOMAIN subreddit_cache
       IN  IF CacheHit(subreddit_cache, name)
           THEN /\ lookups' = [lookups EXCEPT ![t].pc = "done",
                                              ![t].had_entry = entry_exists,
                                              ![t].ret = subreddit_cache[name]]
                /\ UNCHANGED desc_requests
           ELSE /\ lookups' = [lookups EXCEPT ![t].pc = "awaiting",
                                              ![t].had_entry = entry_exists,
                                              ![t].requested = TRUE]
                /\ desc_requests' = Append(desc_requests, name)
    /\ UNCHANGED <<retrievevars, hlsvars, getvars, loopvars, apivars,
                   subreddit_cache, yin, ypc, yret>>

\* the response: status 200 caches and returns public_description; any other
\* status and any exception cache and return None
LookupResponse(t, o) ==
    /\ lookups[t].pc = "awaiting"
    /\ LET name == lookups[t].name
           value == IF o = "200" THEN "description" ELSE "None"
       IN  /\ subreddit_cache' = [n \in DOMAIN subreddit_cache \cup {name} |->
                                     IF n = name THEN value ELSE subreddit_cache[n]]
           /\ lookups' = [lookups EXCEPT ![t].pc = "done", ![t].ret = value]
    /\ UNCHANGED <<retrievevars, hlsvars, getvars, loopvars, apivars,
                   desc_requests, yin, ypc, yret>>

NextCache ==
    \/ \E t \in 1..MaxLookups : Lookup(t)
    \/ \E t \in 1..MaxLookups, o \in {"200", "404", "exception"} : LookupResponse(t, o)

SpecCache == InitCache /\ [][NextCache]_vars

\* ======================================================================
\* _download_with_ytdlp (scraping/ytdlp.py).  yt-dlp and ezmm are external:
\* extract_info returns the metadata or raises; in the inner try statement
\* Video(...) returns or raises, video.relocate(...) returns or raises, and
\* the comparison with max_video_size = None raises TypeError; download_image
\* returns an Image or None, or raises.  A video is written as <<size>>,
\* no video as <<>>.
\* ======================================================================
MaxSize == 2

InitYtdlp ==
    /\ RetrieveIdle
    /\ HlsIdle
    /\ GetIdle
    /\ LoopIdle
    /\ ApiIdle
    /\ CacheIdle
    /\ \E lim \in {[limited |-> FALSE, max_video_size |-> 0]}
                    \cup [limited : {TRUE}, max_video_size : 0..MaxSize],
          rest \in [extract : {"metadata", "raise"},
                    ext : BOOLEAN,
                    load : {"loaded", "FileNotFoundError", "Video_raises",
                            "relocate_raises"},
                    size : 0..(MaxSize + 1),
                    thumbnail : {"absent", "image", "None", "raise"}] :
          yin = lim @@ rest
    /\ ypc = "start"
    /\ yret = <<>>

\* the whole call: extract_info; the inner try statement that loads,
\* relocates and size-checks the video; the thumbnail download; the return.
\* An exception of Video(...) leaves video = None; an exception of relocate
\* or of the comparison leaves video assigned, as neither except clause
\* resets it.  Any exception outside the inner try returns (None, None, None).
DownloadWithYtdlp ==
    /\ ypc = "start"
    /\ LET video == IF ~yin.ext \/ yin.load \in {"FileNotFoundError", "Video_raises"}
                    THEN <<>>
                    ELSE IF yin.load = "relocate_raises" \/ ~yin.limited
                    THEN <<yin.size>>
                    ELSE IF yin.size > yin.max_video_size
                    THEN <<>>
                    ELSE <<yin.size>>
       IN  yret' = IF yin.extract = "raise" \/ yin.thumbnail = "raise"
                   THEN [video |-> <<>>, thumbnail |-> "None", metadata |-> "None"]
                   ELSE [video |-> video,
                         thumbnail |-> IF yin.thumbnail = "image" THEN "image" ELSE "None",
                         metadata |-> "metadata"]
    /\ ypc' = "done"
    /\ UNCHANGED <<retrievevars, hlsvars, getvars, loopvars, apivars, cachevars, yin>>

SpecYtdlp == InitYtdlp /\ [][DownloadWithYtdlp]_vars

\* ======================================================================
\* Properties
\* ======================================================================
IsChain(j) == tasks[j].coro = "retrieve_single"

ChainDone(j) == IsChain(j) /\ tstate[j] = "done"

\* positions of methods that name a known method
KnownIdx == {i \in 1..Len(methods) : methods[i] \in method_map}

\* positions of methods whose backend task j has invoked
Invoked(j) == {log[j][k].i : k \in 1..Len(log[j])}

LogKinds(j) == {log[j][k].out.kind : k \in 1..Len(log[j])}

\* run_with_semaphore has been entered
InRunWithSemaphore ==
    /\ pc # "start"
    /\ \/ entry = "run_with_semaphore"
       \/ entry = "list" /\ Len(urls) >= 2

\* C1: retrieve(list) returns a list of the length of urls whose element i
\* is the result the method chain produced for urls[i], whatever order the
\* tasks ended in.
C1_OrderPreserved ==
    (entry = "list" /\ pc = "done") =>
        /\ Len(ret) = Len(urls)
        /\ \A i \in 1..Len(urls) :
              \E j \in Created : tasks[j].url = urls[i] /\ ret[i] = tres[j]

C1_Witness ==
    /\ entry = "list" /\ pc = "done"
    /\ Len(urls) = 3 /\ urls[1] = urls[3] /\ urls[1] # urls[2]
    /\ doneOrder = <<2, 1>>
    /\ urls_unique[1] = urls[2]
    /\ ret[1].kind = "content" /\ ret[2].kind = "content"

\* C2: in a batch retrieve every distinct URL is dispatched to
\* _retrieve_single exactly once, and all output positions of a URL hold
\* that one result.
C2_DedupDispatch ==
    (entry = "list" /\ pc # "start") =>
        /\ \A u \in Range(urls) :
              Cardinality({j \in Created : tasks[j].url = u}) = 1
        /\ pc = "done" =>
              \A i, k \in 1..Len(urls) : urls[i] = urls[k] => ret[i] = ret[k]

C2_Witness ==
    /\ entry = "list" /\ pc = "done"
    /\ urls = <<"u1", "u2", "u1">>
    /\ Len(tasks) = 2
    /\ ret[1] = ret[3] /\ ret[1].kind = "content" /\ ret[2].kind = "none"

\* C3: within one _retrieve_single the methods are invoked one after the
\* other in the order of methods: a method is invoked only after the one
\* before has returned, and never after one has returned a non-None result.
C3_SequentialChain ==
    \A j \in Created : IsChain(j) =>
        /\ \A k \in 1..Len(log[j]) : log[j][k].name = methods[log[j][k].i]
        /\ \A k \in 1..(Len(log[j]) - 1) :
              /\ log[j][k].i < log[j][k + 1].i
              /\ log[j][k].out.kind \notin {"pending", "content"}

C3_Witness ==
    \E j \in Created :
        /\ ChainDone(j)
        /\ Len(methods) = 2 /\ KnownIdx = {1, 2}
        /\ Len(log[j]) = 1 /\ log[j][1].out.kind = "content"

\* C4: _retrieve_single returns the result of the first method, in list
\* order, that returned non-None: every known method before it was invoked
\* and returned None; and it returns None when no method produced a result,
\* which, when every invoked method returned None, means all of them were tried.
C4_FirstNonNone ==
    \A j \in Created : ChainDone(j) =>
        LET hits == {k \in 1..Len(log[j]) : log[j][k].out.kind = "content"}
        IN  /\ hits # {} =>
                  \E k \in hits :
                      /\ tres[j] = log[j][k].out
                      /\ \A h \in 1..(k - 1) : log[j][h].out.kind = "none"
                      /\ {log[j][h].i : h \in 1..k} = {i \in KnownIdx : i <= log[j][k].i}
            /\ hits = {} => tres[j] = None
            /\ LogKinds(j) \subseteq {"none"} => Invoked(j) = KnownIdx

C4_Witness ==
    \E j \in Created :
        /\ ChainDone(j)
        /\ Len(log[j]) = 2
        /\ log[j][1].out.kind = "none"
        /\ log[j][2].out.kind = "content"
        /\ tres[j] = log[j][2].out

\* C5: a backend that raises is treated as having produced no result: the
\* exception is not propagated and the next method of the list is attempted.
C5_RaiseFallsThrough ==
    \A j \in Created : ChainDone(j) =>
        /\ tres[j].kind # "raise"
        /\ \A k \in 1..Len(log[j]) :
              log[j][k].out.kind = "raise" =>
                  \A i \in KnownIdx : i > log[j][k].i => i \in Invoked(j)

\* C6: retrieve of a string or a list never raises; a URL none of whose
\* methods returned a content yields None (in its position).
C6_NeverRaises ==
    (entry \in {"str", "list"}) =>
        /\ pc # "raised"
        /\ \A j \in Created : tres[j].kind # "raise"
        /\ (pc = "done" /\ entry = "str" /\ "content" \notin LogKinds(1)) => ret = None
        /\ (pc = "done" /\ entry = "list") =>
              \A i \in 1..Len(urls) : \A j \in Created :
                  (tasks[j].url = urls[i] /\ "content" \notin LogKinds(j)) => ret[i] = None

C6_Witness ==
    /\ entry = "str" /\ pc = "done"
    /\ "raise" \in LogKinds(1)
    /\ ret = None

\* C7: an unknown method name is skipped without an invocation and without
\* an exception, and the methods after it are still attempted in order.
C7_UnknownSkipped ==
    \A j \in Created : IsChain(j) =>
        /\ tres[j].kind # "raise"
        /\ \A i \in 1..Len(methods) :
              /\ (i \in Invoked(j) => methods[i] \in method_map)
              /\ (i < idx[j] /\ methods[i] \in method_map) => i \in Invoked(j)
        /\ (tstate[j] = "done" /\ LogKinds(j) \subseteq {"none"}) => idx[j] = Len(methods) + 1

C7_Witness ==
    \E j \in Created :
        /\ ChainDone(j)
        /\ methods = <<"bogus", "decodo">>
        /\ tres[j] = Content(tasks[j].url, "decodo")

\* C8: in run_with_semaphore never more than limit tasks are inside the
\* semaphore, tasks wait only while no slot is free, every ended task has
\* given its slot back (also one that ended with an exception), and the
\* limit of a batch retrieve is 20.
C8_SemaphoreBound ==
    InRunWithSemaphore =>
        /\ NumIn("running") <= limit
        /\ semaphore + NumIn("running") = limit
        /\ semaphore >= 0
        /\ waiters # <<>> => semaphore = 0
        /\ Range(waiters) = {j \in Created : tstate[j] = "waiting"}
        /\ entry = "list" => limit = 20

C8_Witness ==
    /\ entry = "run_with_semaphore"
    /\ limit = 2 /\ Len(tasks) = 3
    /\ tstate = <<"done", "running", "running">>
    /\ tres[1].kind = "raise"

\* C9: run_with_semaphore returns one result per submitted task, position i
\* holding the result of the i-th task, whatever order they ended in.
C9_ResultPerTask ==
    (InRunWithSemaphore /\ pc = "done") =>
        /\ Len(results) = Len(tasks)
        /\ \A j \in 1..Len(tasks) : tstate[j] = "done" /\ results[j] = tres[j]

C9_Witness ==
    /\ entry = "run_with_semaphore" /\ pc = "done"
    /\ Len(tasks) = 3
    /\ doneOrder = <<2, 3, 1>>
    /\ \A j \in 1..3 : results[j] = Content(tasks[j].url, "")

\* C10: a URL that fails (all methods None, or a backend raising) does not
\* abort a batch retrieve: the call returns, every chain has run to its end,
\* and each position holds the result of its own URL.
C10_BatchNotAborted ==
    (entry = "list" /\ pc \in {"done", "raised"}) =>
        /\ pc = "done"
        /\ \A j \in Created : tstate[j] = "done"
        /\ \A i \in 1..Len(urls) :
              /\ ret[i].kind = "content" => ret[i].url = urls[i]
              /\ \A j \in Created :
                    (tasks[j].url = urls[i] /\ "content" \in LogKinds(j))
                        => ret[i].kind = "content"

C10_Witness ==
    /\ entry = "list" /\ pc = "done"
    /\ Len(tasks) = 2
    /\ "raise" \in LogKinds(1)
    /\ ret[1] = None
    /\ \E i \in 1..Len(urls) : ret[i].kind = "content"

\* ---------------------------------------------------- download_hls_video
\* the session.get calls made for segments, in the order they were made
SegmentRequests == SelectSeq(requests, LAMBDA r : r.kind = "segment")

\* the segments whose download succeeded
Downloaded == {r.i : r \in {q \in Range(requests) : q.kind = "segment" /\ q.out = "ok"}}

\* the buffers of the downloaded segments, joined in playlist order
RECURSIVE JoinFrom(_)
JoinFrom(i) ==
    IF i > Len(remote.segments) THEN <<>>
    ELSE (IF i \in Downloaded THEN SegmentData(i) ELSE <<>>) \o JoinFrom(i + 1)

StageRank(st) ==
    CASE st = "FetchPlaylist" -> 1
      [] st = "SelectVariant" -> 2
      [] st = "FetchVariantPlaylist" -> 3
      [] st = "FetchSegments" -> 4
      [] st = "Concatenate" -> 5
      [] st = "Transcode" -> 6
      [] st = "Done" -> 7

\* C13: a failed fetch of the playlist or of the chosen variant's playlist
\* ends download_hls_video with None, and no segment is ever requested.
C13_FailFast ==
    \A k \in 1..Len(requests) :
        (requests[k].kind \in {"playlist", "variant"} /\ requests[k].out # "ok") =>
            /\ hpc = "Done"
            /\ hret = NoVideo
            /\ SegmentRequests = <<>>
            /\ ffmpeg_runs = <<>>

C13_Witness ==
    /\ hpc = "Done"
    /\ remote.master /\ Len(remote.segments) > 0
    /\ Len(requests) = 2
    /\ requests[1].out = "ok"
    /\ requests[2].kind = "variant" /\ requests[2].out = "status"
    /\ hret = NoVideo

\* C14: for a master playlist the variant whose media playlist is fetched is
\* one with the highest declared bandwidth, wherever it stands in the list.
C14_HighestBandwidth ==
    \A k \in 1..Len(requests) :
        requests[k].kind = "variant" =>
            /\ requests[k].i = best_playlist
            /\ requests[k].url = UrlJoin(BaseOf(playlist_url), VariantUri(best_playlist))
            /\ \A v \in 1..Len(remote.bandwidths) :
                  remote.bandwidths[best_playlist] >= remote.bandwidths[v]

\* C15: every segment is requested at most once and in playlist order; a
\* failed download is not retried, does not end the call, and every later
\* segment is still requested.
C15_SegmentsIsolated ==
    /\ \A k \in 1..(Len(SegmentRequests) - 1) :
          SegmentRequests[k].i < SegmentRequests[k + 1].i
    /\ hpc = "Done" =>
          \A k \in 1..Len(SegmentRequests) :
              SegmentRequests[k].out # "ok" =>
                  \A i \in (SegmentRequests[k].i + 1)..Len(playlist.segments) :
                      \E m \in 1..Len(SegmentRequests) : SegmentRequests[m].i = i

C17_TranscodeFallback ==
    \A k \in 1..Len(ffmpeg_runs) :
        ffmpeg_runs[k] # "ok" =>
            /\ hpc = "Done"
            /\ hret = Video("ts", Join(video_segments))
            /\ hret.data # <<>>

C17_Witness ==
    /\ hpc = "Done"
    /\ ffmpeg_runs = <<"FileNotFoundError">>
    /\ hret.kind = "video" /\ hret.format = "ts"
    /\ hret.data = combined_content

\* C18: for a media playlist given directly, every relative segment URI is
\* requested at the base of playlist_url, and the call returns a Video when
\* the segments are downloaded.
C18_RelativeResolved ==
    (hpc = "Done" /\ ~remote.master /\ requests[1].out = "ok") =>
        /\ \A i \in 1..Len(remote.segments) :
              remote.segments[i] = "rel" =>
                  \E k \in 1..Len(requests) :
                      /\ requests[k].kind = "segment" /\ requests[k].i = i
                      /\ requests[k].url =
                            UrlJoin(BaseOf(playlist_url), SegmentUri(i, "rel"))
        /\ (Downloaded # {}) => hret.kind = "video"

\* C19: when no segment was downloaded, the call returns None and ffmpeg is
\* never run.
C19_NothingDownloaded ==
    /\ Downloaded = {} => /\ ffmpeg_runs = <<>>
                          /\ temp_files = {}
                          /\ hpc \notin {"Concatenate", "Transcode"}
    /\ (hpc = "Done" /\ Downloaded = {}) => hret = NoVideo

C19_Witness ==
    /\ hpc = "Done"
    /\ Len(playlist.segments) = 2
    /\ Len(SegmentRequests) = 2
    /\ Downloaded = {}
    /\ hret = NoVideo
    /\ ffmpeg_runs = <<>>

\* C20: the stages are entered in the order FetchPlaylist, SelectVariant,
\* FetchVariantPlaylist, FetchSegments, Concatenate, Transcode, Done, none
\* twice and never an earlier one after a later one; SelectVariant and
\* FetchVariantPlaylist are entered exactly when the first playlist is a
\* master playlist.
C20_StageOrder ==
    hpc # "idle" =>
        /\ stages[1] = "FetchPlaylist"
        /\ hpc = stages[Len(stages)]
        /\ \A k \in 1..(Len(stages) - 1) :
              StageRank(stages[k]) < StageRank(stages[k + 1])
        /\ (requests # <<>> /\ requests[1].out # "ok") => stages = <<"FetchPlaylist", "Done">>
        /\ (requests # <<>> /\ requests[1].out = "ok") =>
              /\ ("SelectVariant" \in Range(stages)) <=> remote.master
              /\ (remote.master /\ hpc # "SelectVariant") =>
                    "FetchVariantPlaylist" \in Range(stages)
        /\ "FetchVariantPlaylist" \in Range(stages) => "SelectVariant" \in Range(stages)
        /\ "Transcode" \in Range(stages) => "Concatenate" \in Range(stages)
        /\ "Concatenate" \in Range(stages) => "FetchSegments" \in Range(stages)
        /\ hret.kind # "pending" <=> hpc = "Done"

C20_Witness ==
    /\ stages = <<"FetchPlaylist", "SelectVariant", "FetchVariantPlaylist",
                  "FetchSegments", "Concatenate", "Transcode", "Done">>
    /\ hret.kind = "video" /\ hret.format = "mp4"

\* ------------------------------------------------------- integrations' get
RequestFailed(st) ==
    \E k \in DOMAIN gtrace : gtrace[k].step = st /\ gtrace[k].out # "data"

\* C11: the public get of a backend never raises: a failed request, a URL
\* of an unexpected domain or shape, or an unconfigured integration all end
\* the call with None.
C11_GetNeverRaises == gret.kind # "raise"

\* C12: when the X API request for a tweet fails (network error, HTTP error
\* status, or a response without data), the get of the X backend ends with
\* None, which is what lets the method chain go on to the next method.
C12_FailedTweetRequestIsNone ==
    (backend.name = "X" /\ gpc = "Done" /\ RequestFailed("tweets_request")) =>
        (gret = None /\ ~IsSuccess(gret))

\* ------------------------------------------------ run_with_semaphore, retrieve
AllDone == \A j \in Created : tstate[j] = "done"

\* the next created task the loop will run
NextToStart(j) ==
    /\ tstate[j] = "created"
    /\ \A k \in 1..(j - 1) : tstate[k] # "created"

\* C27: progress reporting is advisory: while the polling loop runs it
\* holds no semaphore slot, every task that could start or end without it
\* can do so, the loop can leave once all tasks are done, and the list
\* returned with show_progress=True is the tasks' results in task order,
\* exactly as with show_progress=False.
C27_ProgressAdvisory ==
    (InRunWithSemaphore /\ show_progress) =>
        /\ pc = "progress" =>
              /\ semaphore + NumIn("running") = limit
              /\ progress_n <= NumIn("done")
              /\ \A j \in Created : NextToStart(j) => ENABLED TaskStart(j)
              /\ \A j \in Created :
                    (tstate[j] = "running" /\ tasks[j].coro = "awaitable")
                        => ENABLED AwaitableEnd(j, "none")
              /\ AllDone => (progress_n >= N \/ ENABLED <<Poll>>_vars)
        /\ pc = "done" => results = tres

C27_Witness ==
    /\ entry = "run_with_semaphore" /\ show_progress
    /\ pc = "done"
    /\ limit = 1 /\ Len(tasks) = 3
    /\ progress_n = 3
    /\ results = <<Content("t1", ""), None, Content("t3", "")>>

\* C28: run_with_semaphore neither cancels nor times out a task: a running
\* task leaves that state only by its own awaitable ending, until then it
\* holds its slot, the call does not return before every task has ended,
\* and tasks wait only while all limit slots are in use, so the slots a
\* stalled task does not hold keep being used by the others.
C28_NoCancellation ==
    /\ [](InRunWithSemaphore =>
            /\ semaphore + NumIn("running") = limit
            /\ waiters # <<>> => NumIn("running") = limit
            /\ pc = "done" => AllDone
            /\ \A j \in Created : tstate[j] = "done" <=> tres[j].kind # "pending")
    /\ [][\A j \in Created :
            tstate[j] = "running" =>
                \/ tstate'[j] = "running" /\ tres'[j] = Pending
                \/ /\ tstate'[j] = "done"
                   /\ tres'[j].kind # "pending"
                   /\ doneOrder' = Append(doneOrder, j)]_vars

\* task 1 is still running and holds one of the two slots; tasks 2 and 3
\* have gone through the other one
C28_Witness ==
    /\ entry = "run_with_semaphore"
    /\ limit = 2 /\ Len(tasks) = 3
    /\ tstate = <<"running", "done", "done">>
    /\ doneOrder = <<2, 3>>
    /\ semaphore = 1
    /\ pc \in {"progress", "gather"}

\* the call has ended: with a value, or (run_with_semaphore called with an
\* awaitable that raises) with that exception
Returned == pc \in {"done", "raised"}

\* C29: if every backend call returns, retrieve returns a value, for a
\* string and for a list, with and without progress reporting, whether the
\* tasks fit into the limit or have to queue: a waiting task obtains a slot
\* and the progress loop is left once all tasks are done.
C29_EventuallyReturns ==
    <>[](/\ Returned
         /\ entry \in {"str", "list"} => pc = "done"
         /\ pc = "done" => (AllDone /\ waiters = <<>> /\ semaphore = limit))

\* three tasks went through one slot under the progress loop and the call
\* has returned
C29_Witness ==
    /\ entry = "run_with_semaphore" /\ show_progress
    /\ limit = 1 /\ Len(tasks) = 3
    /\ doneOrder = <<1, 2, 3>>
    /\ pc = "done"
    /\ progress_n = 3

\* C30: the session retrieve creates is open while the call runs and closed
\* once it has ended, on every way out (a string, an empty list, one URL,
\* a batch); when it is closed every dispatched _retrieve_single has ended,
\* and none takes a step afterwards.
C30_SessionClosedAfterTasks ==
    /\ [](entry \in {"str", "list"} =>
            /\ session \in {"open", "closed"}
            /\ Returned <=> session = "closed"
            /\ session = "closed" => AllDone)
    /\ [][session = "closed" => UNCHANGED <<tstate, idx, log, tres>>]_vars

C30_Witness ==
    /\ entry = "list" /\ Len(urls) = 3
    /\ Len(tasks) = 2
    /\ doneOrder = <<2, 1>>
    /\ "raise" \in LogKinds(2)
    /\ pc = "done"
    /\ session = "closed"

\* ------------------------------------------------ tasks of one event loop
\* task u is in flight and its next step is one the loop would run now:
\* it is not itself inside a blocking call or waiting for the pool
Ready(u) == lpc[u] \in {"start", "segments", "coroutine", "thumbnail", "response", "search_get"}

\* C21: the ffmpeg run of download_hls_video is offloaded: while one task
\* is transcoding, every other task of the loop that is ready can take its
\* step.
C21_TranscodeOffloaded ==
    \A t \in LoopTasks : (ltasks[t] = "hls" /\ lpc[t] = "ffmpeg") =>
        \A u \in LoopTasks \ {t} : Ready(u) => ENABLED OnLoop(u)

\* C22: get_content_with_ytdlp runs YoutubeDL.extract_info on another
\* thread: the download is done by a pool thread, and while it runs every
\* other ready task of the loop can take its step.
C22_DownloadInThread ==
    \A t \in LoopTasks : (ltasks[t] = "ytdlp" /\ lpc[t] = "extract_info") =>
        /\ t \in workers
        /\ thread # t
        /\ \A u \in LoopTasks \ {t} : Ready(u) => ENABLED OnLoop(u)

\* C26: no backend operation changes the shared session: whatever runs
\* beside it (X.search included), a request a task makes on the shared
\* session goes through the session's original connector, and once all
\* operations have ended the session has that connector.
C26_SharedSessionUnchanged ==
    /\ \A t \in LoopTasks : ltasks[t] # "x_search" => observed[t] \subseteq {"original"}
    /\ (\A t \in LoopTasks : lpc[t] = "done") => connector = "original"

\* ------------------------------------------------ API requests and sessions
CallsOf(req) == {k \in DOMAIN calls : calls[k].req = req}

\* C23: an authentication failure leads to at most one re-authentication
\* in one backend call: Reddit.search, when the API keeps answering 401,
\* re-authenticates and retries once and then returns no result.
C23_AtMostOneReauth ==
    /\ Cardinality(CallsOf("reauth")) <= 1
    /\ Cardinality(CallsOf("search")) <= 2

\* C24: when a request made during a fetch is answered with 401, the
\* backend re-authenticates once and repeats the request before the fetch
\* ends without a result.
C24_RefreshOn401 ==
    (op = "Reddit.get" /\ apc = "Done") =>
        \A k \in CallsOf("post") \cup CallsOf("post_retry") :
            calls[k].out = "401" =>
                \E a \in CallsOf("auth") \cup CallsOf("reauth") :
                    /\ a > k
                    /\ \E r \in CallsOf("post") \cup CallsOf("post_retry") : r > a

\* C25: a session a backend call created for itself (the shared one was
\* closed, or for the retry with a fresh session) is closed when the call
\* has ended, however it ended.
C25_PrivateSessionsClosed ==
    apc = "Done" => \A n \in DOMAIN sessions : sessions[n] = "closed"

\* ------------------------------------------------------- retrieve, short lists
\* C31: retrieve([]) returns [] and no backend is invoked; retrieve([u])
\* returns a list of one element, the result of the method chain for u;
\* neither goes through run_with_semaphore (no semaphore, no task waiting,
\* no progress polling).
C31_ShortLists ==
    (entry = "list" /\ Len(urls) <= 1) =>
        /\ pc \notin {"progress", "gather"}
        /\ limit = 0 /\ semaphore = 0 /\ waiters = <<>>
        /\ progress_n = 0 /\ results = <<>> /\ urls_unique = <<>>
        /\ Len(urls) = 0 => (tasks = <<>> /\ (pc = "done" => ret = <<>>))
        /\ Len(urls) = 1 =>
              /\ Len(tasks) <= 1
              /\ \A j \in Created : tasks[j] = Coro(urls[1]) /\ tstate[j] # "waiting"
              /\ pc = "done" =>
                    /\ Len(ret) = 1
                    /\ ret[1] = tres[1]
                    /\ ret[1].kind = "content" => ret[1].url = urls[1]
                    /\ ret[1].kind = "content" <=> "content" \in LogKinds(1)

C31_Witness ==
    /\ entry = "list" /\ urls = <<"u2">>
    /\ show_progress
    /\ pc = "done"
    /\ Len(log[1]) = 2
    /\ ret = <<Content("u2", "decodo")>>

\* ------------------------------------------------- download_hls_video, cleanup
\* C36: when download_hls_video has returned, the temporary .ts and .mp4
\* files it created no longer exist, whether ffmpeg succeeded, failed or was
\* not found.
C36_TempFilesDeleted ==
    hpc = "Done" => temp_files = {}

\* ------------------------------------------- Reddit subreddit description cache
\* C32: the number of entries of the description cache never exceeds a fixed
\* bound, whatever names are looked up.
C32_CacheBounded ==
    Cardinality(DOMAIN subreddit_cache) <= CacheBound

\* C33: at most one description request is sent per subreddit name, also
\* when several lookups of the same name are under way at once.
C33_OneRequestPerName ==
    \A n \in 1..(CacheBound + 1) :
        Cardinality({i \in 1..Len(desc_requests) : desc_requests[i] = n}) <= 1

\* C34: a lookup that starts when its name has an entry in the cache, the
\* None entry included, returns at once, with a cached value and without
\* sending a request.
C34_CachedEntryServed ==
    /\ \A t \in DOMAIN lookups :
          lookups[t].had_entry =>
              /\ lookups[t].pc = "done"
              /\ ~lookups[t].requested
              /\ lookups[t].ret \in {"description", "None"}
    /\ Len(desc_requests) = Cardinality({t \in DOMAIN lookups : lookups[t].requested})
    /\ \A t \in DOMAIN lookups : lookups[t].requested => ~lookups[t].had_entry

C34_Witness ==
    /\ lookups[1].name = lookups[2].name
    /\ lookups[1].name \in DOMAIN subreddit_cache
    /\ subreddit_cache[lookups[1].name] = "None"
    /\ lookups[1].requested /\ lookups[1].pc = "done"
    /\ lookups[2].had_entry /\ lookups[2].pc = "done" /\ lookups[2].ret = "None"
    /\ Len(desc_requests) = 1

\* ------------------------------------------------------- Reddit.search, dates
\* C35: every URL that Reddit.search returns belongs to a post created
\* within the date range the caller gave, also when the search was retried
\* after a 401.
C35_OnlyInRange ==
    (op = "Reddit.search" /\ apc = "Done") =>
        \A t \in found_days : InRange(t, date_range)

\* -------------------------------------------------------- _download_with_ytdlp
\* C37: the Video that _download_with_ytdlp returns is never larger than
\* max_video_size; when the downloaded video is larger, the video component
\* is None and the thumbnail and the metadata are returned all the same.
C37_NoOversizedVideo ==
    (ypc = "done" /\ yin.limited) =>
        /\ yret.video # <<>> => yret.video[1] <= yin.max_video_size
        /\ (yret.metadata # "None" /\ yin.ext /\ yin.size > yin.max_video_size) =>
              /\ yret.video = <<>>
              /\ yret.thumbnail = "image" <=> yin.thumbnail = "image"

====
